---- MODULE Spec2Model ----
(***************************************************************************)
(* Model of Examples/Use_GPUs_with_Apache_Beam.ipynb: the Monte Carlo pi   *)
(* estimate computed four ways (native Python, jitted machine code, a      *)
(* plain CUDA kernel launch, and a Beam pipeline whose DoFn launches the   *)
(* same kernel).  The three notebook sections share only sample_size, so a *)
(* behaviour executes the cells of one section (chosen by its first step), *)
(* including re-execution of cells.                                        *)
(*                                                                         *)
(* numba's xoroshiro128+ generator is deterministic in (seed, index) and   *)
(* keeps one state per index.  Its 128-bit state is narrowed to RngMod     *)
(* values and its float32 output to UniformLevels equidistant values of    *)
(* [0,1); the generator stays a deterministic per-slot state machine.      *)
(***************************************************************************)
EXTENDS Integers, Sequences, FiniteSets, TLC

VARIABLES
    sample_size,      \* cell "sample_size = 100_000_000" (an input here)
    sampler_count,    \* cell "sampler_count = 100" (an input here)
    section,          \* notebook section being executed: idle, cpu, gpu, beam
    error,            \* exception raised by the last cell, or "none"
    cpu,              \* frame of python_cpu_/machine_code_cpu_monte_carlo_pi
    rng_states,       \* [0] module-level rng_states; [k] rng_states_per_sampler of element k
    acc,              \* [0] module-level acc;        [k] acc_per_sampler array of element k
    writers,          \* ghost: kernel threads that accessed each array slot
    thr,              \* kernel thread locals per launch: pc, i, sub_acc
    sub_size,         \* sub_sample_size argument of each launch
    gpu,              \* plain GPU section: pc, sub_sample_size, pi
    gpu_log,          \* ghost: per timing-cell execution, RNG state at launch and np.sum(acc)
    drawn,            \* ghost: points drawn by kernel threads since the run started
    pipe,             \* pipeline: pc, elements, sample_size_per_sampler, runs
    elem,             \* per element: stage, times consumed, yielded array, mapped int
    combine_in,       \* accumulator of CombineGlobally(sum): inputs in arrival order
    sum_acc,          \* output of CombineGlobally(sum), <<>> until extracted
    printed,          \* estimates printed by print_pi in this run
    hist,             \* ghost: element lists built, arrays yielded in the first run
    sum32             \* np.sum over a full-size float32 acc array: position, running sum

vars == <<sample_size, sampler_count, section, error, cpu, rng_states, acc, writers,
          thr, sub_size, gpu, gpu_log, drawn, pipe, elem, combine_in, sum_acc,
          printed, hist, sum32>>

----------------------------------------------------------------------------
(* Bounds of the model *)

MaxSampleSize == 7
MaxSamplers == 2
\* acc.size = threadsperblock * blocks (64 * 24 in the notebook), scaled down
GridSize == 2
MaxRuns == 2
RngMod == 64
UniformLevels == 8

\* outcomes of the draws of a full-size run: in-circle shares 0/HitShares .. 1
HitShares == 4

\* significand width of np.float32
F32Mantissa == 24

\* the notebook's configuration
threadsperblock == 64
blocks == 24
NotebookSampleSize == 100000000
NotebookSamplerCount == 100

\* acc.size = threadsperblock * blocks, at full size
AccSize == threadsperblock * blocks

Positions == 0 .. (GridSize - 1)
Launches == 0 .. MaxSamplers
Levels == 0 .. (UniformLevels - 1)

----------------------------------------------------------------------------
(* Arithmetic helpers *)

RECURSIVE Pow2(_)
Pow2(n) == IF n = 0 THEN 1 ELSE 2 * Pow2(n - 1)

\* integers below this are all float32 values
F32Limit == Pow2(F32Mantissa)

RECURSIVE F32Ulp(_, _)
\* spacing of float32 values around the non-negative integer n
F32Ulp(n, u) == IF n < u * F32Limit THEN u ELSE F32Ulp(n, 2 * u)

\* conversion of a non-negative integer to np.float32, round-half-to-even
F32(n) ==
    LET u == F32Ulp(n, 1)
        q == n \div u
        r == n % u
    IN  IF 2 * r < u THEN q * u
        ELSE IF 2 * r > u THEN (q + 1) * u
        ELSE IF q % 2 = 0 THEN q * u ELSE (q + 1) * u

RECURSIVE NpSumFrom(_, _, _)
NpSumFrom(a, p, s) ==
    IF p = GridSize THEN s ELSE NpSumFrom(a, p + 1, F32(s + a[p]))

\* np.sum over a float32 array: float32 additions in index order
NpSum(a) == NpSumFrom(a, 0, 0)

\* faulty variant of PySum: the fold keeps the last input instead of adding it
PySumLast(s) == IF Len(s) = 0 THEN 0 ELSE s[Len(s)]

RECURSIVE PySumFrom(_, _, _)
PySumFrom(s, k, t) == IF k > Len(s) THEN t ELSE PySumFrom(s, k + 1, t + s[k])

\* builtin sum over the ints CombineGlobally collected
PySum(s) == PySumFrom(s, 1, 0)

\* (x * x + y * y) < 1.0 for x = kx / UniformLevels, y = ky / UniformLevels
InCircle(kx, ky) == IF kx * kx + ky * ky < UniformLevels * UniformLevels THEN 1 ELSE 0

----------------------------------------------------------------------------
(* numba.cuda.random *)

\* state of index pos after create_xoroshiro128p_states(n, seed)
InitState(seed, pos) == (seed * 23 + pos * 37 + 11) % RngMod

create_xoroshiro128p_states(seed) == [pos \in Positions |-> InitState(seed, pos)]

\* xoroshiro128p_next: the state of one slot after a draw
NextState(s) == (s * 5 + 3) % RngMod

\* the value a draw returns from state s, as a level k standing for k / UniformLevels
Uniform(s) == (s * UniformLevels) \div RngMod

Zeros == [pos \in Positions |-> 0]

NoThreads == [pos \in Positions |-> [pc |-> "idle", i |-> 0, sub_acc |-> 0]]

NoWriters == [pos \in Positions |-> {}]

----------------------------------------------------------------------------
(* Initial state: the notebook kernel before any cell of a section ran *)

\* no full-size summation is in progress
NoSum == [pc |-> "idle", path |-> "none", sub_sample_size |-> 0, count |-> 0,
          stored |-> 0, p |-> 0, s |-> 0, exact |-> 0, pi |-> <<>>]

\* the kernel with no cell of a section executed yet
Fresh ==
    /\ section = "idle"
    /\ error = "none"
    /\ cpu = [fn |-> "none", pc |-> "idle", i |-> 0, acc |-> 0, result |-> <<>>]
    /\ rng_states = [a \in Launches |-> Zeros]
    /\ acc = [a \in Launches |-> Zeros]
    /\ writers = [a \in Launches |-> NoWriters]
    /\ thr = [l \in Launches |-> NoThreads]
    /\ sub_size = [l \in Launches |-> 0]
    /\ gpu = [pc |-> "undefined", sub_sample_size |-> 0, pi |-> <<>>]
    /\ gpu_log = <<>>
    /\ drawn = 0
    /\ pipe = [pc |-> "unbuilt", elements |-> <<>>, sample_size_per_sampler |-> 0,
               runs |-> 0]
    /\ elem = <<>>
    /\ combine_in = <<>>
    /\ sum_acc = <<>>
    /\ printed = <<>>
    /\ hist = [built |-> <<>>, yield |-> <<>>]
    /\ sum32 = NoSum

Init ==
    /\ sample_size \in 0 .. MaxSampleSize
    /\ sampler_count \in 0 .. MaxSamplers
    /\ Fresh

gpu_vars == <<rng_states, acc, writers, thr, sub_size, gpu, gpu_log, drawn>>
beam_vars == <<pipe, elem, combine_in, sum_acc, printed, hist>>

----------------------------------------------------------------------------
(* python_cpu_monte_carlo_pi / machine_code_cpu_monte_carlo_pi: same body *)

\* the call: acc = 0, the loop is entered
CpuCall(fn) ==
    /\ section \in {"idle", "cpu"}
    /\ cpu.pc \in {"idle", "returned", "raised"}
    /\ cpu.fn \in {"none", fn}
    /\ section' = "cpu"
    /\ error' = "none"
    /\ cpu' = [fn |-> fn, pc |-> "loop", i |-> 0, acc |-> 0, result |-> <<>>]
    /\ UNCHANGED <<sum32, sample_size, sampler_count>>
    /\ UNCHANGED gpu_vars
    /\ UNCHANGED beam_vars

\* one iteration of "for i in range(sample_size)": random.random() is the
\* process-wide unseeded generator, so each draw is any level
CpuIter ==
    /\ cpu.pc = "loop"
    /\ cpu.i < sample_size
    /\ \E x \in Levels, y \in Levels :
         cpu' = [cpu EXCEPT !.i = @ + 1, !.acc = @ + InCircle(x, y)]
    /\ UNCHANGED <<sum32, sample_size, sampler_count, section, error>>
    /\ UNCHANGED gpu_vars
    /\ UNCHANGED beam_vars

\* return 4.0 * acc / sample_size
CpuReturn ==
    /\ cpu.pc = "loop"
    /\ cpu.i = sample_size
    /\ IF sample_size = 0
       THEN /\ error' = "ZeroDivisionError"
            /\ cpu' = [cpu EXCEPT !.pc = "raised"]
       ELSE /\ error' = "none"
            /\ cpu' = [cpu EXCEPT !.pc = "returned",
                                  !.result = <<4 * cpu.acc, sample_size>>]
    /\ UNCHANGED <<sum32, sample_size, sampler_count, section>>
    /\ UNCHANGED gpu_vars
    /\ UNCHANGED beam_vars

----------------------------------------------------------------------------
(* gpu_monte_carlo_pi_sampler: one CUDA thread per grid position *)

\* faulty variant of Slot: every thread works on slot 0
SlotZero(pos) == 0

\* pos = cuda.grid(1): the slot of rng_states and acc a thread works on
Slot(pos) == pos

\* the arrays a launch was given: 0 the module-level acc and rng_states,
\* k the arrays Sampler.process allocated for element k
ArraysOf(l) == l

\* the launch kernel[blocks, threadsperblock](rng_states, sub_sample_size, acc):
\* every thread of the grid enters the kernel; "if pos < acc.size"
LaunchThreads ==
    [pos \in Positions |->
        IF pos < GridSize
        THEN [pc |-> "run", i |-> 0, sub_acc |-> 0]
        ELSE [pc |-> "done", i |-> 0, sub_acc |-> 0]]

\* one iteration of "for i in range(sub_sample_size)": two draws from the
\* thread's RNG slot, the test, sub_acc += 1
KernelIter(l, pos) ==
    LET a == ArraysOf(l)
        slot == Slot(pos)
        s0 == rng_states[a][slot]
        s1 == NextState(s0)
        s2 == NextState(s1)
    IN  /\ thr[l][pos].pc = "run"
        /\ thr[l][pos].i < sub_size[l]
        /\ rng_states' = [rng_states EXCEPT ![a][slot] = s2]
        /\ thr' = [thr EXCEPT ![l][pos].i = @ + 1,
                              ![l][pos].sub_acc = @ + InCircle(Uniform(s0), Uniform(s1))]
        /\ writers' = [writers EXCEPT ![a][slot] = @ \cup {<<l, pos>>}]
        /\ drawn' = drawn + 1
        /\ UNCHANGED <<sum32, sample_size, sampler_count, section, error, cpu, acc, sub_size,
                       gpu, gpu_log>>
        /\ UNCHANGED beam_vars

\* acc[pos] = sub_acc (a float32 store), the thread ends
KernelStore(l, pos) ==
    LET a == ArraysOf(l)
        slot == Slot(pos)
    IN  /\ thr[l][pos].pc = "run"
        /\ thr[l][pos].i = sub_size[l]
        /\ acc' = [acc EXCEPT ![a][slot] = F32(thr[l][pos].sub_acc)]
        /\ thr' = [thr EXCEPT ![l][pos].pc = "done"]
        /\ writers' = [writers EXCEPT ![a][slot] = @ \cup {<<l, pos>>}]
        /\ UNCHANGED <<sum32, sample_size, sampler_count, section, error, cpu, rng_states,
                       sub_size, gpu, gpu_log, drawn>>
        /\ UNCHANGED beam_vars

KernelDone(l) == \A pos \in Positions : thr[l][pos].pc = "done"

\* faulty variant of SubSampleSize: the division rounds up
SubSampleSizeCeil(size) == (size + GridSize - 1) \div GridSize

\* size // acc.shape[0]: the iterations each thread of a launch is given
SubSampleSize(size) == size \div GridSize

----------------------------------------------------------------------------
(* Plain GPU section *)

\* the cell defining the kernel, calculate_pi and the module-level
\* acc, rng_states (seed=1) and sub_sample_size
GpuDefine ==
    /\ section \in {"idle", "gpu"}
    /\ gpu.pc \in {"undefined", "defined", "timed"}
    /\ section' = "gpu"
    /\ error' = "none"
    /\ acc' = [acc EXCEPT ![0] = Zeros]
    /\ rng_states' = [rng_states EXCEPT ![0] = create_xoroshiro128p_states(1)]
    /\ writers' = [writers EXCEPT ![0] = NoWriters]
    /\ gpu' = [pc |-> "defined", sub_sample_size |-> SubSampleSize(sample_size),
               pi |-> <<>>]
    /\ UNCHANGED <<sum32, sample_size, sampler_count, cpu, thr, sub_size, gpu_log, drawn>>
    /\ UNCHANGED beam_vars

\* timing cell, first statement: the kernel launch on the module-level arrays
GpuLaunch ==
    /\ gpu.pc \in {"defined", "timed"}
    /\ Len(gpu_log) < MaxRuns
    /\ error' = "none"
    /\ thr' = [thr EXCEPT ![0] = LaunchThreads]
    /\ sub_size' = [sub_size EXCEPT ![0] = gpu.sub_sample_size]
    /\ gpu' = [gpu EXCEPT !.pc = "launched", !.pi = <<>>]
    /\ gpu_log' = Append(gpu_log, [rng |-> rng_states[0], acc |-> acc[0], total |-> 0])
    /\ drawn' = 0
    /\ UNCHANGED <<sum32, sample_size, sampler_count, section, cpu, rng_states, acc, writers>>
    /\ UNCHANGED beam_vars

\* timing cell, second statement: pi = calculate_pi(acc, sample_size),
\* 4 * np.sum(acc) / sample_size, once the launch has completed; a zero
\* divisor raises under numba's default error model
CalculatePi ==
    /\ gpu.pc = "launched"
    /\ KernelDone(0)
    /\ gpu_log' = [gpu_log EXCEPT ![Len(gpu_log)].total = NpSum(acc[0])]
    /\ IF sample_size = 0
       THEN /\ error' = "ZeroDivisionError"
            /\ gpu' = [gpu EXCEPT !.pc = "timed"]
       ELSE /\ error' = "none"
            /\ gpu' = [gpu EXCEPT !.pc = "timed",
                                  !.pi = <<4 * NpSum(acc[0]), sample_size>>]
    /\ UNCHANGED <<sum32, sample_size, sampler_count, section, cpu, rng_states, acc, writers,
                   thr, sub_size, drawn>>
    /\ UNCHANGED beam_vars

----------------------------------------------------------------------------
(* Beam pipeline section *)

\* faulty variant of ElementSeed: one fixed seed for every element
ElementSeedFixed(i) == 1

\* the seed of the tuple built for index i of range(sampler_count)
ElementSeed(i) == i

\* [(i, sample_size_per_sampler) for i in range(sampler_count)]
CreateElements(n, size) == [k \in 1 .. n |-> <<ElementSeed(k - 1), size>>]

FreshElem == [stage |-> "pending", consumed |-> 0, summed |-> 0,
              yielded |-> Zeros, mapped |-> 0]

\* the cells from "p = beam.Pipeline(...)" to "print_pi = ...": the graph
\* Create -> ParDo(Sampler) -> Map(np.sum) -> CombineGlobally(sum) -> Map(print)
\* is constructed; sample_size // sampler_count is evaluated first.  The
\* cells are executed for the first time or again after a run (building
\* twice in a row gives the graph of building once).
BuildPipeline ==
    /\ section \in {"idle", "beam"}
    /\ pipe.pc \in {"unbuilt", "done", "failed"}
    /\ Len(hist.built) < MaxRuns
    /\ section' = "beam"
    /\ IF sampler_count = 0
       THEN /\ error' = "ZeroDivisionError"
            /\ UNCHANGED <<pipe, hist>>
       ELSE /\ error' = "none"
            /\ pipe' = [pipe EXCEPT
                 !.pc = "built",
                 !.sample_size_per_sampler = sample_size \div sampler_count,
                 !.elements = CreateElements(sampler_count, sample_size \div sampler_count)]
            /\ hist' = [hist EXCEPT
                 !.built = Append(@, CreateElements(sampler_count,
                                                    sample_size \div sampler_count)),
                 !.yield = IF @ = <<>>
                           THEN [k \in 1 .. sampler_count |-> [set |-> FALSE, arr |-> Zeros]]
                           ELSE @]
    /\ UNCHANGED <<sum32, sample_size, sampler_count, cpu, elem, combine_in, sum_acc, printed>>
    /\ UNCHANGED gpu_vars

\* p.run(): every PCollection is computed anew from the Create transform
\* (the ib.show cells, which compute a PCollection only to display it, are
\* left out)
RunPipeline ==
    /\ pipe.pc \in {"built", "done", "failed"}
    /\ pipe.runs < MaxRuns
    /\ error' = "none"
    /\ pipe' = [pipe EXCEPT !.pc = "running", !.runs = @ + 1]
    /\ elem' = [k \in 1 .. Len(pipe.elements) |-> FreshElem]
    /\ combine_in' = <<>>
    /\ sum_acc' = <<>>
    /\ printed' = <<>>
    /\ drawn' = 0
    /\ UNCHANGED <<sum32, sample_size, sampler_count, section, cpu, rng_states, acc, writers,
                   thr, sub_size, gpu, gpu_log, hist>>

\* faulty variant of SamplerProcess: the RNG states are not created per call, the
\* launch draws from whatever the array holds
SamplerProcessStale(k) ==
    LET a == ArraysOf(k)
        sample_size_per_sampler == pipe.elements[k][2]
    IN  /\ pipe.pc = "running"
        /\ k \in 1 .. Len(pipe.elements)
        /\ elem[k].stage = "pending"
        /\ elem' = [elem EXCEPT ![k].stage = "running", ![k].consumed = @ + 1]
        /\ acc' = [acc EXCEPT ![a] = Zeros]
        /\ writers' = [writers EXCEPT ![a] = NoWriters]
        /\ sub_size' = [sub_size EXCEPT ![k] = SubSampleSize(sample_size_per_sampler)]
        /\ thr' = [thr EXCEPT ![k] = LaunchThreads]
        /\ UNCHANGED <<sum32, sample_size, sampler_count, section, error, cpu, gpu, gpu_log,
                       drawn, pipe, combine_in, sum_acc, printed, hist, rng_states>>

\* Sampler.process up to the kernel launch: element k is taken, its acc and
\* RNG-state arrays are allocated and the kernel is launched on them
SamplerProcess(k) ==
    LET a == ArraysOf(k)
        rng_seed == pipe.elements[k][1]
        sample_size_per_sampler == pipe.elements[k][2]
    IN  /\ pipe.pc = "running"
        /\ k \in 1 .. Len(pipe.elements)
        /\ elem[k].stage = "pending"
        /\ elem' = [elem EXCEPT ![k].stage = "running", ![k].consumed = @ + 1]
        /\ acc' = [acc EXCEPT ![a] = Zeros]
        /\ rng_states' = [rng_states EXCEPT ![a] = create_xoroshiro128p_states(rng_seed)]
        /\ writers' = [writers EXCEPT ![a] = NoWriters]
        /\ sub_size' = [sub_size EXCEPT ![k] = SubSampleSize(sample_size_per_sampler)]
        /\ thr' = [thr EXCEPT ![k] = LaunchThreads]
        /\ UNCHANGED <<sum32, sample_size, sampler_count, section, error, cpu, gpu, gpu_log,
                       drawn, pipe, combine_in, sum_acc, printed, hist>>

\* faulty variant of AllCombined: the combiner emits as soon as one input arrived
SomeCombined == Len(combine_in) >= 1

\* all inputs of CombineGlobally(sum) have arrived
AllCombined == Len(combine_in) = Len(pipe.elements)

\* the rest of the fused stage for element k, once its launch has completed:
\* "yield acc_per_sampler", Map(np.sum(x).astype(int).item()), and the add of
\* the int to the accumulator of CombineGlobally(sum)
SamplerYield(k) ==
    LET a == ArraysOf(k)
        x == acc[a]
    IN  /\ pipe.pc = "running"
        /\ k \in 1 .. Len(pipe.elements)
        /\ elem[k].stage = "running"
        /\ KernelDone(k)
        /\ elem' = [elem EXCEPT ![k].stage = "combined", ![k].yielded = x,
                                ![k].mapped = NpSum(x), ![k].summed = @ + 1]
        /\ combine_in' = Append(combine_in, NpSum(x))
        /\ hist' = IF hist.yield[k].set
                   THEN hist
                   ELSE [hist EXCEPT !.yield[k] = [set |-> TRUE, arr |-> x]]
        /\ UNCHANGED <<sum32, sample_size, sampler_count, section, error, cpu, pipe, sum_acc,
                       printed>>
        /\ UNCHANGED gpu_vars

\* CombineGlobally(sum) emits sum(inputs) once every input has arrived
CombineExtract ==
    /\ pipe.pc = "running"
    /\ sum_acc = <<>>
    /\ AllCombined
    /\ sum_acc' = <<PySum(combine_in)>>
    /\ UNCHANGED <<sum32, sample_size, sampler_count, section, error, cpu, pipe, elem,
                   combine_in, printed, hist>>
    /\ UNCHANGED gpu_vars

\* print_pi: print(4 * x / sample_size) on the single output of sum_acc
PrintPi ==
    /\ pipe.pc = "running"
    /\ sum_acc # <<>>
    /\ IF sample_size = 0
       THEN /\ error' = "ZeroDivisionError"
            /\ pipe' = [pipe EXCEPT !.pc = "failed"]
            /\ UNCHANGED printed
       ELSE /\ error' = "none"
            /\ pipe' = [pipe EXCEPT !.pc = "done"]
            /\ printed' = Append(printed, <<4 * sum_acc[1], sample_size>>)
    /\ UNCHANGED <<sum32, sample_size, sampler_count, section, cpu, elem, combine_in, sum_acc,
                   hist>>
    /\ UNCHANGED gpu_vars

----------------------------------------------------------------------------

Next ==
    \/ \E fn \in {"python", "jit"} : CpuCall(fn)
    \/ CpuIter
    \/ CpuReturn
    \/ GpuDefine
    \/ GpuLaunch
    \/ CalculatePi
    \/ \E l \in Launches, pos \in Positions : KernelIter(l, pos)
    \/ \E l \in Launches, pos \in Positions : KernelStore(l, pos)
    \/ BuildPipeline
    \/ RunPipeline
    \/ \E k \in 1 .. MaxSamplers : SamplerProcess(k)
    \/ \E k \in 1 .. MaxSamplers : SamplerYield(k)
    \/ CombineExtract
    \/ PrintPi

Spec == Init /\ [][Next]_vars

----------------------------------------------------------------------------
(* The float32 arithmetic of a run at full size.  The threads of a launch   *)
(* are not stepped here: a launch is taken as completed, an outcome of its  *)
(* draws being the share of points that fell inside the circle (the same in *)
(* every thread, and in every sampler of a pipeline run).  What is stepped  *)
(* is what happens to the counts afterwards: the float32 store acc[pos] =   *)
(* sub_acc, the float32 accumulation of np.sum over the acc.size slots, and *)
(* the estimate.                                                            *)

\* sample sizes of the full-size runs: the notebook's, and one that is a
\* multiple of acc.size with an odd count per thread
FullSizes == {NotebookSampleSize, AccSize * 11003}

InitFull ==
    /\ sample_size \in FullSizes
    /\ sampler_count = NotebookSamplerCount
    /\ Fresh

\* sub_sample_size of a launch: sample_size // acc.shape[0] in the plain GPU
\* run, (sample_size // sampler_count) // acc_per_sampler.shape[0] in Sampler
FullSubSampleSize(path) ==
    IF path = "gpu" THEN sample_size \div AccSize
    ELSE (sample_size \div sampler_count) \div AccSize

\* a completed launch: every thread ran sub_sample_size iterations, counted
\* its share of them in sub_acc and stored it with acc[pos] = sub_acc
FullLaunch(path) ==
    /\ sum32.pc = "idle"
    /\ \E share \in 0 .. HitShares :
          LET sub == FullSubSampleSize(path)
              c == (sub * share) \div HitShares
          IN  sum32' = [pc |-> "sum", path |-> path, sub_sample_size |-> sub,
                        count |-> c, stored |-> F32(c), p |-> 0, s |-> 0,
                        exact |-> 0, pi |-> <<>>]
    /\ UNCHANGED <<sample_size, sampler_count, section, error, cpu>>
    /\ UNCHANGED gpu_vars
    /\ UNCHANGED beam_vars

\* np.sum(acc): the next slot is added to the float32 running sum
FullSumStep ==
    /\ sum32.pc = "sum"
    /\ sum32.p < AccSize
    /\ sum32' = [sum32 EXCEPT !.p = @ + 1,
                              !.s = F32(@ + sum32.stored),
                              !.exact = @ + sum32.count]
    /\ UNCHANGED <<sample_size, sampler_count, section, error, cpu>>
    /\ UNCHANGED gpu_vars
    /\ UNCHANGED beam_vars

\* the estimate: 4 * np.sum(acc) / sample_size in calculate_pi; in the
\* pipeline np.sum(x).astype(int).item() per sampler, sum over the
\* sampler_count ints, and print(4 * x / sample_size)
FullEstimate ==
    /\ sum32.pc = "sum"
    /\ sum32.p = AccSize
    /\ sum32' = [sum32 EXCEPT
          !.pc = "done",
          !.pi = IF sum32.path = "gpu"
                 THEN <<4 * sum32.s, sample_size>>
                 ELSE <<4 * (sampler_count * sum32.s), sample_size>>]
    /\ UNCHANGED <<sample_size, sampler_count, section, error, cpu>>
    /\ UNCHANGED gpu_vars
    /\ UNCHANGED beam_vars

NextFull ==
    \/ \E path \in {"gpu", "beam"} : FullLaunch(path)
    \/ FullSumStep
    \/ FullEstimate

SpecFull == InitFull /\ [][NextFull]_vars

----------------------------------------------------------------------------
(* Quantities the properties are stated over *)

RECURSIVE SumTo(_, _)
\* f[1] + ... + f[n]
SumTo(f, n) == IF n = 0 THEN 0 ELSE f[n] + SumTo(f, n - 1)

\* in-circle points counted by the threads of launch l (exact, before any store)
LaunchInCircle(l) == SumTo([p \in 1 .. GridSize |-> thr[l][p - 1].sub_acc], GridSize)

\* in-circle points counted by all Sampler launches of the pipeline run
PipelineInCircle == SumTo([k \in 1 .. MaxSamplers |-> LaunchInCircle(k)], MaxSamplers)

RECURSIVE StreamCount(_, _)
\* in-circle points among the first n pairs drawn from a private stream at state s
StreamCount(s, n) ==
    IF n = 0 THEN 0
    ELSE InCircle(Uniform(s), Uniform(NextState(s)))
         + StreamCount(NextState(NextState(s)), n - 1)

RECURSIVE Advance(_, _)
\* a private stream's state after n draws
Advance(s, n) == IF n = 0 THEN s ELSE Advance(NextState(s), n - 1)

Started(k) == k \in DOMAIN elem /\ elem[k].stage # "pending"

\* the orders in which the slots of an array can be taken
PositionOrders == Permutations(Positions)

\* the orders in which n inputs can arrive
ArrivalOrders == [n \in 0 .. MaxSamplers |-> Permutations(1 .. n)]

----------------------------------------------------------------------------
(* C1 *)

\* C1: whenever the partition counts fit the total, the points drawn by all
\* work units of a completed run sum to sample_size: by the sampler_count x
\* GridSize threads of a pipeline run, and by the GridSize threads of the
\* plain GPU run (no remainder of an integer division is dropped).
C1_SamplesSumToTotal ==
    /\ (pipe.pc = "done" /\ sampler_count * GridSize <= sample_size)
          => drawn = sample_size
    /\ (gpu.pc = "timed" /\ GridSize <= sample_size)
          => drawn = sample_size

----------------------------------------------------------------------------
(* C2 *)

\* C2: the estimate of every path is 4 x total_in_circle / total_samples with
\* total_samples the number of points actually drawn for the partial counts
\* that were summed: cpu.i iterations on the CPU paths, drawn kernel
\* iterations on the GPU and pipeline paths.
C2_EstimateOverDrawnSamples ==
    /\ cpu.pc = "returned"
          => cpu.result[1] * cpu.i = 4 * cpu.acc * cpu.result[2]
    /\ (gpu.pc = "timed" /\ gpu.pi # <<>> /\ drawn > 0)
          => gpu.pi[1] * drawn = 4 * LaunchInCircle(0) * gpu.pi[2]
    /\ (pipe.pc = "done" /\ drawn > 0)
          => printed[1][1] * drawn = 4 * PipelineInCircle * printed[1][2]

----------------------------------------------------------------------------
(* C3 *)

\* C3: Sampler.process is deterministic in its element: the array an
\* invocation yields for element k equals the array the first invocation on
\* the same (rng_seed, sample_size_per_sampler) yielded, whatever ran in
\* between and however the threads and the other samplers were interleaved.
C3_SamplerDeterministic ==
    \A k \in DOMAIN elem :
        (elem[k].stage = "combined" /\ hist.yield[k].set)
            => elem[k].yielded = hist.yield[k].arr

\* a second invocation on element (1, size) has yielded, after threads that
\* drew points and counted some of them
C3_Witness ==
    /\ pipe.runs = 2
    /\ Len(pipe.elements) = 2
    /\ elem[2].stage = "combined"
    /\ sub_size[2] >= 1
    /\ \E pos \in Positions : elem[2].yielded[pos] >= 1
    /\ elem[1].stage = "running"

----------------------------------------------------------------------------
(* C4 *)

\* C4: every execution of the plain GPU run starts from the same accumulator
\* and RNG state as the first one, and so returns the same in-circle total.
C4_FreshStatePerRun ==
    \A i \in DOMAIN gpu_log, j \in DOMAIN gpu_log :
        /\ gpu_log[i].rng = gpu_log[j].rng
        /\ gpu_log[i].acc = gpu_log[j].acc
        /\ gpu.pc = "timed" => gpu_log[i].total = gpu_log[j].total

----------------------------------------------------------------------------
(* C5 *)

\* C5: with sampler_count = 0 or sample_size = 0 the run is rejected before
\* any work is dispatched: no Sampler element is created (so none is handed
\* to Sampler.process), no sampling loop iterates and no estimate is produced.
C5_RejectedBeforeDispatch ==
    (sampler_count = 0 \/ sample_size = 0)
        => /\ pipe.elements = <<>>
           /\ elem = <<>>
           /\ cpu.i = 0 /\ drawn = 0
           /\ cpu.result = <<>> /\ gpu.pi = <<>> /\ printed = <<>>

----------------------------------------------------------------------------
(* C6 *)

\* the RNG state slot pos of launch l held when the launch started
StartState(l, pos) ==
    IF l = 0 THEN gpu_log[Len(gpu_log)].rng[pos]
    ELSE InitState(pipe.elements[l][1], pos)

\* thread pos of launch l has so far seen exactly its own private stream
Isolated(l, pos) ==
    LET t == thr[l][pos]
        s == StartState(l, pos)
    IN  /\ t.sub_acc = StreamCount(s, t.i)
        /\ rng_states[ArraysOf(l)][pos] = Advance(s, 2 * t.i)
        /\ t.pc = "done" => acc[ArraysOf(l)][pos] = StreamCount(s, sub_size[l])

\* C6: workers share no mutable state: under every interleaving, array slot
\* pos of a launch is accessed by the thread at grid position pos of that
\* launch only, each Sampler.process call has arrays of its own, and every
\* thread's count and RNG state are what its own draws alone produce (no
\* write of another worker is read or overwrites it, no count is lost).
C6_NoSharedMutableState ==
    /\ \A a \in Launches, slot \in Positions : writers[a][slot] \subseteq {<<a, slot>>}
    /\ gpu.pc \in {"launched", "timed"} => \A pos \in Positions : Isolated(0, pos)
    /\ \A k \in 1 .. MaxSamplers : Started(k) => \A pos \in Positions : Isolated(k, pos)

\* two Sampler.process calls run concurrently, threads of both in mid-loop
\* with points counted, while another thread has already stored its count
C6_Witness ==
    /\ Started(1) /\ Started(2)
    /\ thr[1][1].pc = "run" /\ thr[1][1].i = 0 /\ sub_size[1] = 1
    /\ thr[2][1].pc = "run" /\ thr[2][1].i = 1 /\ thr[2][1].sub_acc = 1
    /\ thr[1][0].pc = "done" /\ acc[1][0] >= 1

----------------------------------------------------------------------------
(* C7 *)

----------------------------------------------------------------------------
(* C8 *)

----------------------------------------------------------------------------
(* C9 *)

\* C9: every partial result is a non-negative integer no larger than the
\* sample count of its task: a thread runs exactly sub_sample_size iterations
\* adding at most 1 each, so 0 <= acc[pos] <= sub_sample_size, and the count
\* of an element (seed, sample_size_per_sampler) is within
\* 0 .. sample_size_per_sampler.
C9_PartialBounds ==
    /\ \A l \in Launches, pos \in Positions :
          /\ 0 <= acc[ArraysOf(l)][pos] /\ acc[ArraysOf(l)][pos] <= sub_size[l]
          /\ 0 <= thr[l][pos].sub_acc /\ thr[l][pos].sub_acc <= thr[l][pos].i
          /\ thr[l][pos].i <= sub_size[l]
          /\ thr[l][pos].pc = "done" => thr[l][pos].i = sub_size[l]
    /\ \A k \in DOMAIN elem :
          elem[k].stage = "combined"
              => 0 <= elem[k].mapped /\ elem[k].mapped <= pipe.elements[k][2]

\* an element whose count reaches its sample count, and one thread of it
\* whose stored count is below sub_sample_size
C9_Witness ==
    \E k \in DOMAIN elem :
        /\ elem[k].stage = "combined"
        /\ pipe.elements[k][2] >= 2
        /\ elem[k].mapped = pipe.elements[k][2]
        /\ \E j \in DOMAIN elem, pos \in Positions :
              /\ elem[j].stage = "combined"
              /\ elem[j].yielded[pos] < sub_size[j]

----------------------------------------------------------------------------
(* C10 *)

\* C10: the elements created for the pipeline carry pairwise distinct seeds,
\* the seed of the element built for index i is i whatever sample_size and
\* sampler_count are, and every build of the element list gives the same
\* list, which is the one the pipeline runs on.
C10_DistinctDeterministicSeeds ==
    /\ \A n \in DOMAIN hist.built :
          LET b == hist.built[n]
          IN  /\ Len(b) = sampler_count
              /\ \A i \in DOMAIN b, j \in DOMAIN b : i # j => b[i][1] # b[j][1]
              /\ \A i \in DOMAIN b : b[i][1] = i - 1
              /\ b = hist.built[1]
    /\ pipe.pc # "unbuilt" => pipe.elements = hist.built[Len(hist.built)]

\* the list of two elements has been built a second time, after a run
C10_Witness ==
    /\ Len(hist.built) = 2
    /\ Len(pipe.elements) = 2
    /\ pipe.runs >= 1

----------------------------------------------------------------------------
(* C11 *)

\* C11: in the notebook's configuration (sample_size = 100,000,000, 64 x 24
\* threads, 100 samplers) every count held in a float32 value is within
\* 0 .. 2^24 and is the integer it stands for: the count a thread stores in
\* acc[pos], and the running and final value of np.sum over an acc array, in
\* calculate_pi and in the pipeline's Map.
C11_Float32CountsExact ==
    (sample_size = NotebookSampleSize /\ sampler_count = NotebookSamplerCount)
        => /\ 0 <= sum32.stored /\ sum32.stored <= F32Limit
           /\ sum32.stored = sum32.count
           /\ 0 <= sum32.s /\ sum32.s <= F32Limit
           /\ sum32.s = sum32.exact

----------------------------------------------------------------------------
(* C12 *)

\* an estimate num / den lies in the closed range [0, 4]
InRange(pi) == pi # <<>> => (0 <= pi[1] /\ pi[1] <= 4 * pi[2])

====
